---- MODULE Spec2Model ----
(***************************************************************************)
(* The rolling-balls simulation of pi_visualization/rolling_balls.py:      *)
(* the Ball class (move, check_collision) and the frame loop of            *)
(* run_rolling_balls.                                                      *)
(*                                                                         *)
(* Numbers.  The program computes in binary floating point.  The model     *)
(* computes in decimal fixed point, rounding every product and quotient to *)
(* the nearest unit:                                                       *)
(*   - a coordinate (x, y) is a whole number of 1/PS pixel,                *)
(*   - a speed is a whole number of 1/VS pixel per frame,                  *)
(*   - a mass is a whole number of 1/MS,                                   *)
(*   - a radius is a whole number of pixels, as the driver makes it.       *)
(* The square root is rounded down, so that "distance < r1 + r2" and       *)
(* "distance = 0" decide exactly as they do over the reals.                *)
(***************************************************************************)
EXTENDS Integers, Sequences, FiniteSets, TLC

VARIABLES
    balls,      \* the list `balls`: index 0..n-1 -> Ball
    paused,     \* run_rolling_balls: paused
    running,    \* run_rolling_balls: running
    pc,         \* position in run_rolling_balls: create, then in the frame loop
                \* events, move, check, draw, and done or crashed
    i,          \* index of the outer loop (for i, ball in enumerate(balls))
    j,          \* index of the inner loop (for j in range(i + 1, len(balls)))
    frame,      \* number of completed iterations of the while loop
    last,       \* history: the last operation, its operands and the state before it
    moved,      \* history: the balls integrated so far in this frame
    checks,     \* history: the pairs checked so far in this frame, in order
    created,    \* history: the balls as constructed
    args        \* the arguments of run_rolling_balls: pi_digits, max_balls

vars == <<balls, paused, running, pc, i, j, frame, last, moved, checks, created, args>>

---------------------------------------------------------------------------
(* Bounds of the model *)

MaxFrames == 3
MaxEvents == 1
MaxDigits == 64

(* Units *)
PS == 10 * 10
VS == 1000 * PS
MS == 2 * 5

(* Program constants *)
SCREEN_WIDTH == 800
SCREEN_HEIGHT == 600
base_radius == 20
max_radius == 40
place_margin == 50
default_max_balls == 100

---------------------------------------------------------------------------
(* Arithmetic *)

Min(a, b) == IF a < b THEN a ELSE b

Max(a, b) == IF a > b THEN a ELSE b

\* a / b for b > 0, rounded to the nearest integer (halves away from zero)
Round(a, b) == IF a >= 0 THEN (2 * a + b) \div (2 * b)
               ELSE -((2 * (-a) + b) \div (2 * b))

RECURSIVE IsqrtFrom(_, _)
IsqrtFrom(n, g) == LET h == (g + n \div g) \div 2
                   IN  IF h >= g THEN g ELSE IsqrtFrom(n, h)

\* the square root of n, rounded down
Isqrt(n) == IF n = 0 THEN 0 ELSE IsqrtFrom(n, n)

---------------------------------------------------------------------------
(* Ball *)

\* a variant of NewBall: the mass is the radius, the factor 0.5 forgotten
NewBallMassRadius(digit, x, y, radius, vx, vy) ==
    [digit   |-> digit,
     x       |-> x * PS,
     y       |-> y * PS,
     radius  |-> radius,
     speed_x |-> vx,
     speed_y |-> vy,
     mass    |-> radius * MS]

\* Ball.__init__: speed_x, speed_y are the two draws of random.uniform(-2, 2)
NewBall(digit, x, y, radius, vx, vy) ==
    [digit   |-> digit,
     x       |-> x * PS,
     y       |-> y * PS,
     radius  |-> radius,
     speed_x |-> vx,
     speed_y |-> vy,
     mass    |-> radius * (MS \div 2)]

\* self.x += self.speed_x ; self.y += self.speed_y
Advance(b) == [b EXCEPT !.x = b.x + Round(b.speed_x, VS \div PS),
                        !.y = b.y + Round(b.speed_y, VS \div PS)]

\* speed *= -0.95
Bounce(v) == Round(v * (-95), 100)

\* a variant of WallX: the speed is reversed, the position is not clamped
WallXNoClamp(b) ==
    IF b.x - b.radius * PS < 0
    THEN [b EXCEPT !.speed_x = Bounce(b.speed_x)]
    ELSE IF b.x + b.radius * PS > SCREEN_WIDTH * PS
    THEN [b EXCEPT !.speed_x = Bounce(b.speed_x)]
    ELSE b

\* the x walls
WallX(b) ==
    IF b.x - b.radius * PS < 0
    THEN [b EXCEPT !.x = b.radius * PS, !.speed_x = Bounce(b.speed_x)]
    ELSE IF b.x + b.radius * PS > SCREEN_WIDTH * PS
    THEN [b EXCEPT !.x = (SCREEN_WIDTH - b.radius) * PS,
                   !.speed_x = Bounce(b.speed_x)]
    ELSE b

\* the y walls
WallY(b) ==
    IF b.y - b.radius * PS < 0
    THEN [b EXCEPT !.y = b.radius * PS, !.speed_y = Bounce(b.speed_y)]
    ELSE IF b.y + b.radius * PS > SCREEN_HEIGHT * PS
    THEN [b EXCEPT !.y = (SCREEN_HEIGHT - b.radius) * PS,
                   !.speed_y = Bounce(b.speed_y)]
    ELSE b

\* self.speed_y += 0.1
Gravity(b) == [b EXCEPT !.speed_y = b.speed_y + VS \div 10]

\* speed *= 0.995
Damp(v) == Round(v * 995, 1000)

\* self.speed_x *= 0.995 ; self.speed_y *= 0.995
Friction(b) == [b EXCEPT !.speed_x = Damp(b.speed_x),
                         !.speed_y = Damp(b.speed_y)]

\* a variant of Move: damping before gravity
MoveGravityLast(b) == Gravity(Friction(WallY(WallX(Advance(b)))))

\* Ball.move
Move(b) == Friction(Gravity(WallY(WallX(Advance(b)))))

\* distance = (dx**2 + dy**2)**0.5, in 1/PS pixel
Distance(a, o) ==
    LET dx == o.x - a.x
        dy == o.y - a.y
    IN  Isqrt(dx * dx + dy * dy)

\* a variant of Colliding: <= for <
CollidingOrTouching(a, o) == Distance(a, o) <= (a.radius + o.radius) * PS

\* if distance < self.radius + other_ball.radius
Colliding(a, o) == Distance(a, o) < (a.radius + o.radius) * PS

\* a variant of Exchange: v2x, v2y computed from the other ball's own speed
ExchangeKeepsOther(a, o) ==
    LET total_mass == a.mass + o.mass
        v1x == Round((a.mass - o.mass) * a.speed_x + 2 * o.mass * o.speed_x, total_mass)
        v1y == Round((a.mass - o.mass) * a.speed_y + 2 * o.mass * o.speed_y, total_mass)
        v2x == Round((o.mass - a.mass) * o.speed_x + 2 * a.mass * o.speed_x, total_mass)
        v2y == Round((o.mass - a.mass) * o.speed_y + 2 * a.mass * o.speed_y, total_mass)
    IN  <<[a EXCEPT !.speed_x = v1x, !.speed_y = v1y],
          [o EXCEPT !.speed_x = v2x, !.speed_y = v2y]>>

\* the velocities after the collision: v1x, v1y, v2x, v2y
Exchange(a, o) ==
    LET total_mass == a.mass + o.mass
        v1x == Round((a.mass - o.mass) * a.speed_x + 2 * o.mass * o.speed_x, total_mass)
        v1y == Round((a.mass - o.mass) * a.speed_y + 2 * o.mass * o.speed_y, total_mass)
        v2x == Round((o.mass - a.mass) * o.speed_x + 2 * a.mass * a.speed_x, total_mass)
        v2y == Round((o.mass - a.mass) * o.speed_y + 2 * a.mass * a.speed_y, total_mass)
    IN  <<[a EXCEPT !.speed_x = v1x, !.speed_y = v1y],
          [o EXCEPT !.speed_x = v2x, !.speed_y = v2y]>>

\* overlap = 0.5 * (self.radius + other_ball.radius - distance + 1)
Overlap(a, o) == Round((a.radius + o.radius) * PS - Distance(a, o) + PS, 2)

\* a variant of Separate: the signs exchanged, the balls pulled together
SeparateInward(a, o, dx, dy, distance, overlap) ==
    <<[a EXCEPT !.x = a.x + Round(overlap * dx, distance),
                !.y = a.y + Round(overlap * dy, distance)],
      [o EXCEPT !.x = o.x - Round(overlap * dx, distance),
                !.y = o.y - Round(overlap * dy, distance)]>>

\* move the balls apart; distance is not 0 here
Separate(a, o, dx, dy, distance, overlap) ==
    <<[a EXCEPT !.x = a.x - Round(overlap * dx, distance),
                !.y = a.y - Round(overlap * dy, distance)],
      [o EXCEPT !.x = o.x + Round(overlap * dx, distance),
                !.y = o.y + Round(overlap * dy, distance)]>>

\* a variant of CheckCollision: a pair of coincident centres is left alone
CheckCollisionSkipsCoincident(a, o) ==
    LET distance == Distance(a, o)
        ex == Exchange(a, o)
    IN  IF ~Colliding(a, o) \/ distance = 0
        THEN [self |-> a, other |-> o, raised |-> FALSE]
        ELSE LET sep == Separate(ex[1], ex[2], o.x - a.x, o.y - a.y,
                                 distance, Overlap(a, o))
             IN  [self |-> sep[1], other |-> sep[2], raised |-> FALSE]

\* Ball.check_collision: the two balls afterwards, and whether the division
\* by distance raised ZeroDivisionError (the new speeds are assigned by then)
CheckCollision(a, o) ==
    LET distance == Distance(a, o)
        ex == Exchange(a, o)
    IN  IF ~Colliding(a, o)
        THEN [self |-> a, other |-> o, raised |-> FALSE]
        ELSE IF distance = 0
        THEN [self |-> ex[1], other |-> ex[2], raised |-> TRUE]
        ELSE LET sep == Separate(ex[1], ex[2], o.x - a.x, o.y - a.y,
                                 distance, Overlap(a, o))
             IN  [self |-> sep[1], other |-> sep[2], raised |-> FALSE]

---------------------------------------------------------------------------
(* run_rolling_balls: creation of the balls *)

\* digit_counts[digit] after the ball of index k (from 0) is counted
DigitCount(pi_digits, k) ==
    Cardinality({m \in 0..k : pi_digits[m + 1] = pi_digits[k + 1]})

\* a variant of RadiusFor: the cap forgotten
RadiusForUncapped(pi_digits, k) ==
    base_radius + DigitCount(pi_digits, k) \div 3

\* radius = min(base_radius + digit_counts[digit] // 3, 40)
RadiusFor(pi_digits, k) ==
    Min(base_radius + DigitCount(pi_digits, k) \div 3, max_radius)

\* digits_to_show = min(max_balls, len(pi_digits))
DigitsToShow(pi_digits, max_balls) == Min(max_balls, Len(pi_digits))

\* len(pi_digits[:digits_to_show]): a negative stop counts from the end
Shown(pi_digits, max_balls) ==
    LET stop == DigitsToShow(pi_digits, max_balls)
    IN  IF stop >= 0 THEN stop ELSE Max(Len(pi_digits) + stop, 0)

\* the loop that appends one Ball per digit; places[k] is the pair of
\* random.randint draws and vels[k] the pair of random.uniform draws
CreateBalls(pi_digits, max_balls, places, vels) ==
    [k \in 0..(Shown(pi_digits, max_balls) - 1) |->
        NewBall(pi_digits[k + 1], places[k][1], places[k][2],
                RadiusFor(pi_digits, k), vels[k][1], vels[k][2])]

\* inputs of the model
DigitInputs == {<<3, 1, 4>>, <<1, 1, 1>>}
MaxBallsInputs == {2, 3}
\* draws of random.randint(50, SCREEN_WIDTH - 50), random.randint(50, SCREEN_HEIGHT - 50)
Places == {<<place_margin, place_margin>>, <<place_margin + 1, place_margin>>,
           <<place_margin + 40, place_margin>>}
\* draws of random.uniform(-2, 2), twice
Velocities == {<<0, 0>>, <<-2 * VS, -2 * VS>>}

N == Cardinality(DOMAIN balls)

NoOp == [op |-> "init", i |-> 0, j |-> 0, pre |-> <<>>, evs |-> <<>>, paused |-> FALSE]

Start(bs, pi_digits, max_balls) ==
    /\ args = [pi_digits |-> pi_digits, max_balls |-> max_balls]
    /\ balls = bs
    /\ created = bs
    /\ paused = FALSE
    /\ running = TRUE
    /\ pc = "events"
    /\ i = 0
    /\ j = 0
    /\ frame = 0
    /\ last = NoOp
    /\ moved = {}
    /\ checks = <<>>

Init ==
    \E pi_digits \in DigitInputs, max_balls \in MaxBallsInputs :
        LET n == DigitsToShow(pi_digits, max_balls) IN
        \E places \in [0..(n - 1) -> Places], vels \in [0..(n - 1) -> Velocities] :
            Start(CreateBalls(pi_digits, max_balls, places, vels), pi_digits, max_balls)

---------------------------------------------------------------------------
(* run_rolling_balls: the frame loop *)

Events == {"QUIT", "SPACE", "ESCAPE", "KEY", "OTHER"}

RECURSIVE BatchesOf(_)
BatchesOf(n) == IF n = 0 THEN {<<>>}
                ELSE BatchesOf(n - 1) \cup
                     {Append(b, e) : b \in {c \in BatchesOf(n - 1) : Len(c) = n - 1},
                                     e \in Events}

\* what pygame.event.get() may return
EventBatches == BatchesOf(MaxEvents)

\* the body of "for event in pygame.event.get()": st = <<running, paused>>
HandleEvent(st, ev) ==
    IF ev = "QUIT" THEN <<FALSE, st[2]>>
    ELSE IF ev = "SPACE" THEN <<st[1], ~st[2]>>
    ELSE IF ev = "ESCAPE" THEN <<FALSE, st[2]>>
    ELSE st

RECURSIVE HandleEvents(_, _)
HandleEvents(st, evs) ==
    IF evs = <<>> THEN st
    ELSE HandleEvents(HandleEvent(st, Head(evs)), Tail(evs))

\* a variant of RunsPhysics: the pause flag ignored
RunsPhysicsAlways(p) == TRUE

\* if not paused:
RunsPhysics(p) == ~p

\* while running: the event loop of one frame
PollEvents ==
    /\ pc = "events"
    /\ frame < MaxFrames
    /\ \E evs \in EventBatches :
        LET st == HandleEvents(<<running, paused>>, evs) IN
        /\ running' = st[1]
        /\ paused' = st[2]
        /\ last' = [op |-> "events", i |-> 0, j |-> 0, pre |-> balls,
                    evs |-> evs, paused |-> paused]
        /\ pc' = IF RunsPhysics(st[2]) /\ N > 0 THEN "move" ELSE "draw"
    /\ i' = 0
    /\ j' = 0
    /\ moved' = {}
    /\ checks' = <<>>
    /\ UNCHANGED <<balls, frame, created, args>>

\* a variant of AfterMove: the inner loop starts at 0, not at i + 1
AfterMoveFromZero(ii, n) ==
    IF ii + 1 < n THEN <<"check", ii, 0>> ELSE <<"draw", ii, ii + 1>>

\* after ball.move() of ball i: "for j in range(i + 1, len(balls))" starts,
\* or is empty for the last ball and the outer loop ends: <<pc, i, j>>
AfterMove(ii, n) ==
    IF ii + 1 < n THEN <<"check", ii, ii + 1>> ELSE <<"draw", ii, ii + 1>>

\* after check_collision of (i, j): the exception leaves the function, or
\* the inner loop goes on, or the outer loop takes the next ball: <<pc, i, j>>
AfterCheck(ii, jj, n, raised) ==
    IF raised THEN <<"crashed", ii, jj>>
    ELSE IF jj + 1 < n THEN <<"check", ii, jj + 1>>
    ELSE <<"move", ii + 1, jj>>

\* ball.move() for ball i
MoveStep ==
    /\ pc = "move"
    /\ balls' = [balls EXCEPT ![i] = Move(balls[i])]
    /\ moved' = moved \cup {i}
    /\ last' = [op |-> "move", i |-> i, j |-> i, pre |-> balls,
                evs |-> <<>>, paused |-> paused]
    /\ pc' = AfterMove(i, N)[1]
    /\ i' = AfterMove(i, N)[2]
    /\ j' = AfterMove(i, N)[3]
    /\ UNCHANGED <<paused, running, frame, checks, created, args>>

\* ball.check_collision(balls[j])
CheckStep ==
    /\ pc = "check"
    /\ LET res == CheckCollision(balls[i], balls[j])
           nxt == AfterCheck(i, j, N, res.raised)
       IN  /\ balls' = [balls EXCEPT ![i] = res.self, ![j] = res.other]
           /\ pc' = nxt[1]
           /\ i' = nxt[2]
           /\ j' = nxt[3]
    /\ checks' = Append(checks, <<i, j>>)
    /\ last' = [op |-> "check", i |-> i, j |-> j, pre |-> balls,
                evs |-> <<>>, paused |-> paused]
    /\ UNCHANGED <<paused, running, frame, moved, created, args>>

\* the drawing, clock.tick(60), and the test of "while running"
Draw ==
    /\ pc = "draw"
    /\ frame' = frame + 1
    /\ pc' = IF running THEN "events" ELSE "done"
    /\ last' = [op |-> "draw", i |-> 0, j |-> 0, pre |-> balls,
                evs |-> <<>>, paused |-> paused]
    /\ UNCHANGED <<balls, paused, running, i, j, moved, checks, created, args>>

Next == PollEvents \/ MoveStep \/ CheckStep \/ Draw

Spec == Init /\ [][Next]_vars

---------------------------------------------------------------------------
(* Balls constructed directly with Ball(digit, x, y, radius, color), the   *)
(* way the test scenarios of the specification set them up, and run by the *)
(* same frame loop.                                                        *)

\* (10,50) and (30,50), speeds (2,0) and (-2,0), radii 11 + 11 > 20
HeadOnPair == [k \in 0..1 |->
    IF k = 0 THEN NewBall(3, 10, 50, 11, 2 * VS, 0)
    ELSE NewBall(1, 30, 50, 11, -2 * VS, 0)]

\* one ball at rest at (400,300), radius 20
RestingBall == [k \in 0..0 |-> NewBall(3, 400, 300, 20, 0, 0)]

\* one ball of radius 20 about to cross a wall: after the position update
\* its edge is 5 pixels outside
LeftBall   == [k \in 0..0 |-> NewBall(3, 17, 300, 20, -2 * VS, 0)]
RightBall  == [k \in 0..0 |-> NewBall(3, 783, 300, 20, 2 * VS, 0)]
TopBall    == [k \in 0..0 |-> NewBall(3, 400, 17, 20, 0, -2 * VS)]
BottomBall == [k \in 0..0 |-> NewBall(3, 400, 583, 20, 0, 2 * VS)]
CornerBall == [k \in 0..0 |-> NewBall(3, 783, 583, 20, 2 * VS, 2 * VS)]

HarnessCases == {HeadOnPair, RestingBall, LeftBall, RightBall, TopBall,
                 BottomBall, CornerBall}

\* the digits of the balls stand for pi_digits, max_balls has its default
InitHarness ==
    \E bs \in HarnessCases :
        Start(bs, [k \in 1..Cardinality(DOMAIN bs) |-> bs[k - 1].digit], default_max_balls)

InitCases == Init \/ InitHarness

SpecCases == InitCases /\ [][Next]_vars

---------------------------------------------------------------------------
(* run_rolling_balls from its call to the start of the frame loop: the     *)
(* creation of the balls alone, for longer digit sequences.                *)

\* n times the digit d
Repeated(d, n) == [k \in 1..n |-> d]

\* n digits, 1 with every fourth a 4
Mixed(n) == [k \in 1..n |-> IF k % 4 = 0 THEN 4 ELSE 1]

\* the digits of pi after the decimal point, as get_pi_digits returns them
PiPrefix == <<1, 4, 1, 5, 9, 2, 6, 5, 3, 5, 8, 9, 7, 9, 3, 2>>

\* values of pi_digits
CreationDigits ==
    {Repeated(1, n) : n \in 0..MaxDigits} \cup
    {Mixed(n) : n \in 0..MaxDigits} \cup
    {SubSeq(PiPrefix, 1, n) : n \in 0..Len(PiPrefix)}

\* values of max_balls
CreationMaxBalls == {-1, 0, 2, 3, default_max_balls}

InitCreate ==
    /\ args \in [pi_digits : CreationDigits, max_balls : CreationMaxBalls]
    /\ pc = "create"
    /\ balls = <<>>
    /\ created = <<>>
    /\ paused = FALSE
    /\ running = TRUE
    /\ i = 0
    /\ j = 0
    /\ frame = 0
    /\ last = NoOp
    /\ moved = {}
    /\ checks = <<>>

\* balls = [] ... balls.append(Ball(...)) for every digit shown, up to
\* running = True, paused = False; the draws alternate between two values
Create ==
    /\ pc = "create"
    /\ \E p \in Places, q \in Places, v \in Velocities, w \in Velocities :
          LET n == Shown(args.pi_digits, args.max_balls)
              places == [k \in 0..(n - 1) |-> IF k % 2 = 0 THEN p ELSE q]
              vels == [k \in 0..(n - 1) |-> IF k % 2 = 0 THEN v ELSE w]
              bs == CreateBalls(args.pi_digits, args.max_balls, places, vels)
          IN  /\ balls' = bs
              /\ created' = bs
    /\ pc' = "events"
    /\ last' = [op |-> "create", i |-> 0, j |-> 0, pre |-> balls,
                evs |-> <<>>, paused |-> paused]
    /\ UNCHANGED <<paused, running, i, j, frame, moved, checks, args>>

SpecCreate == InitCreate /\ [][Create]_vars

---------------------------------------------------------------------------
(* Properties *)

\* radius <= x <= width - radius and radius <= y <= height - radius
Contained(b) ==
    /\ b.radius * PS <= b.x
    /\ b.x <= (SCREEN_WIDTH - b.radius) * PS
    /\ b.radius * PS <= b.y
    /\ b.y <= (SCREEN_HEIGHT - b.radius) * PS

\* C1: wall containment.  From every placement the driver makes, after
\* every completed frame update each ball lies wholly inside the viewport,
\* the balls displaced by the overlap separation included.
C1_WallContainment ==
    (last.op = "draw" /\ ~last.paused) => \A k \in DOMAIN balls : Contained(balls[k])

\* the operands of the last operation, before and after it
PreSelf == last.pre[last.i]
PreOther == last.pre[last.j]
PostSelf == balls[last.i]
PostOther == balls[last.j]

\* the last operation was a collision check that ran to its end
Checked == last.op = "check" /\ pc # "crashed"

\* the number of SPACE key presses in a batch of events
Toggles(evs) == Cardinality({k \in 1..Len(evs) : evs[k] = "SPACE"})

\* C2: while the simulation is paused no step changes a ball, however many
\* frames pass, and the pause flag changes only while the events of a frame
\* are handled, when they hold an odd number of SPACE key presses.
C2_PausedFreezes ==
    [][ /\ (paused => balls' = balls)
        /\ (paused' # paused =>
              /\ pc = "events"
              /\ last'.op = "events"
              /\ Toggles(last'.evs) % 2 = 1) ]_vars

\* a frame was completed while paused, after a frame that moved the balls
C2_Witness ==
    /\ last.op = "draw"
    /\ paused
    /\ frame >= 2
    /\ balls # created

\* C4: a collision check of a pair whose centres are at least the sum of the
\* radii apart changes neither ball; a pair is resolved exactly when
\* distance < A.radius + B.radius.
C4_NoSpuriousResolution ==
    last.op = "check" =>
        ((Distance(PreSelf, PreOther) >= (PreSelf.radius + PreOther.radius) * PS)
            <=> (balls = last.pre /\ pc # "crashed"))

\* a pair exactly the sum of its radii apart was checked and left alone
C4_Witness ==
    /\ Checked
    /\ Distance(PreSelf, PreOther) = (PreSelf.radius + PreOther.radius) * PS
    /\ balls = last.pre

\* C5: for a colliding pair with distance > 0, the centres are farther apart
\* after the check than before it, and at least the sum of the radii apart.
C5_SeparationPushesApart ==
    (Checked /\ Colliding(PreSelf, PreOther) /\ Distance(PreSelf, PreOther) > 0) =>
        /\ Distance(PostSelf, PostOther) > Distance(PreSelf, PreOther)
        /\ Distance(PostSelf, PostOther) >= (PreSelf.radius + PreOther.radius) * PS

\* a colliding pair of distinct centres was resolved
C5_Witness ==
    /\ Checked
    /\ Colliding(PreSelf, PreOther)
    /\ Distance(PreSelf, PreOther) > 0
    /\ Distance(PostSelf, PostOther) > (PreSelf.radius + PreOther.radius) * PS

\* a frame that ran the physics has just been completed, the first one
FirstStepDone == last.op = "draw" /\ ~last.paused /\ frame = 1

\* the two balls of a pair swapped their velocities
Swapped ==
    /\ PostSelf.speed_x = PreOther.speed_x
    /\ PostSelf.speed_y = PreOther.speed_y
    /\ PostOther.speed_x = PreSelf.speed_x
    /\ PostOther.speed_y = PreSelf.speed_y

\* a colliding pair of equal masses and distinct centres was resolved
EqualMassResolved ==
    /\ Checked
    /\ Colliding(PreSelf, PreOther)
    /\ Distance(PreSelf, PreOther) > 0
    /\ PreSelf.mass = PreOther.mass

\* C3 as stated: the resolution of a colliding pair of equal masses swaps
\* the two velocities, and after one step of the head-on pair (10,50),(30,50)
\* with velocities (2,0),(-2,0) A has x-velocity -2 and B has x-velocity 2.
C3_AsStated ==
    /\ EqualMassResolved => Swapped
    /\ (created = HeadOnPair /\ FirstStepDone) =>
          /\ balls[0].speed_x = -2 * VS
          /\ balls[1].speed_x = 2 * VS

\* C3 amended: the resolution of a colliding pair of equal masses swaps the
\* two velocities; after one step of the head-on pair (radii 11) A has
\* x-velocity -2, the velocity B was constructed with, and B has x-velocity
\* 2 * 0.995 * 0.995 = 1.98005: A was integrated before the check, B after it.
C3_EqualMassExchange ==
    /\ EqualMassResolved => Swapped
    /\ (created = HeadOnPair /\ FirstStepDone) =>
          /\ balls[0].speed_x = -2 * VS
          /\ balls[1].speed_x = 198005 * (VS \div 100000)

\* the head-on pair after its first step
C3_Witness ==
    /\ created = HeadOnPair
    /\ FirstStepDone
    /\ checks = <<<<0, 1>>>>
    /\ balls[0].speed_x = -2 * VS

\* the position update of the ball that was just integrated, and whether it
\* crossed a wall
NewX == PreSelf.x + Round(PreSelf.speed_x, VS \div PS)
NewY == PreSelf.y + Round(PreSelf.speed_y, VS \div PS)
CrossLeft == NewX - PreSelf.radius * PS < 0
CrossRight == ~CrossLeft /\ NewX + PreSelf.radius * PS > SCREEN_WIDTH * PS
CrossTop == NewY - PreSelf.radius * PS < 0
CrossBottom == ~CrossTop /\ NewY + PreSelf.radius * PS > SCREEN_HEIGHT * PS

\* v * -0.95, v * 0.995 and 0.1 in speed units
TimesRestitution(v) == Round(-95 * v, 100)
TimesDamping(v) == Round(995 * v, 1000)
GravityStep == VS \div 10

\* C6: position update, then wall reflection, then gravity, then damping.
\* After move, velocity.y = (velocity.y after the walls + 0.1) * 0.995 and
\* velocity.x = (velocity.x after the walls) * 0.995; a ball at rest that
\* touches no wall keeps its position, gets velocity.y = 0.1 * 0.995 and
\* keeps velocity.x = 0; so does the resting ball at (400,300) after one step.
C6_IntegrationOrder ==
    /\ last.op = "move" =>
          LET wx == IF CrossLeft \/ CrossRight THEN TimesRestitution(PreSelf.speed_x)
                    ELSE PreSelf.speed_x
              wy == IF CrossTop \/ CrossBottom THEN TimesRestitution(PreSelf.speed_y)
                    ELSE PreSelf.speed_y
          IN  /\ PostSelf.speed_x = TimesDamping(wx)
              /\ PostSelf.speed_y = TimesDamping(wy + GravityStep)
              /\ (PreSelf.speed_x = 0 /\ PreSelf.speed_y = 0 /\ Contained(PreSelf)) =>
                    /\ PostSelf.x = PreSelf.x
                    /\ PostSelf.y = PreSelf.y
                    /\ PostSelf.speed_x = 0
                    /\ PostSelf.speed_y = 995 * (VS \div 10000)
    /\ (created = RestingBall /\ FirstStepDone) =>
          /\ balls[0].x = 400 * PS
          /\ balls[0].y = 300 * PS
          /\ balls[0].speed_x = 0
          /\ balls[0].speed_y = 995 * (VS \div 10000)

\* the resting ball at (400,300) after its first step
C6_Witness ==
    /\ created = RestingBall
    /\ FirstStepDone
    /\ balls[0].speed_y = 995 * (VS \div 10000)

\* C7: a coordinate whose edge crossed a wall after the position update is
\* clamped to radius or dimension - radius and its velocity is multiplied by
\* -0.95 (before the damping of the frame); the other axis is handled on its
\* own.  The ball with its left edge at x = -5 and radius 20 ends at x = 20.
C7_WallBounce ==
    /\ last.op = "move" =>
          /\ CrossLeft => /\ PostSelf.x = PreSelf.radius * PS
                          /\ PostSelf.speed_x = TimesDamping(TimesRestitution(PreSelf.speed_x))
          /\ CrossRight => /\ PostSelf.x = (SCREEN_WIDTH - PreSelf.radius) * PS
                           /\ PostSelf.speed_x = TimesDamping(TimesRestitution(PreSelf.speed_x))
          /\ ~(CrossLeft \/ CrossRight) => /\ PostSelf.x = NewX
                                           /\ PostSelf.speed_x = TimesDamping(PreSelf.speed_x)
          /\ CrossTop => /\ PostSelf.y = PreSelf.radius * PS
                         /\ PostSelf.speed_y =
                               TimesDamping(TimesRestitution(PreSelf.speed_y) + GravityStep)
          /\ CrossBottom => /\ PostSelf.y = (SCREEN_HEIGHT - PreSelf.radius) * PS
                            /\ PostSelf.speed_y =
                                  TimesDamping(TimesRestitution(PreSelf.speed_y) + GravityStep)
          /\ ~(CrossTop \/ CrossBottom) => /\ PostSelf.y = NewY
                                           /\ PostSelf.speed_y =
                                                 TimesDamping(PreSelf.speed_y + GravityStep)
    /\ (created = LeftBall /\ last.op = "move" /\ frame = 0) =>
          /\ NewX - PreSelf.radius * PS = -5 * PS
          /\ balls[0].x = 20 * PS
          /\ balls[0].speed_x = 18905 * (VS \div 10000)

\* the ball whose left edge reached x = -5 was clamped to x = 20
C7_Witness ==
    /\ created = LeftBall
    /\ last.op = "move"
    /\ frame = 0
    /\ CrossLeft
    /\ balls[0].x = 20 * PS

\* C8: every ball has mass = 0.5 * radius, and its radius, mass and digit
\* are those of its construction; the list of balls keeps its length.
C8_FixedAttributes ==
    /\ DOMAIN balls = DOMAIN created
    /\ \A k \in DOMAIN balls :
          /\ 2 * balls[k].mass = balls[k].radius * MS
          /\ balls[k].radius = created[k].radius
          /\ balls[k].mass = created[k].mass
          /\ balls[k].digit = created[k].digit

\* a collision of two balls of different mass was resolved, after a first
\* frame
C8_Witness ==
    /\ Checked
    /\ balls # last.pre
    /\ PreSelf.mass # PreOther.mass
    /\ frame >= 1

\* C9 as stated: every collision check of a frame sees both of its balls
\* already integrated for that frame.
C9_AsStated ==
    last.op = "check" => (last.i \in moved /\ last.j \in moved)

\* C9 amended: when the pair (i, j) is checked, the balls 0..i have been
\* integrated for that frame and the balls above i, ball j among them, have
\* not: ball j is integrated after its checks against the balls below it.
C9_InterleavedStep ==
    last.op = "check" =>
        /\ last.i < last.j
        /\ moved = 0..last.i
        /\ last.j \notin moved

\* the pair (1, 2) was checked with ball 2 still at its state of the frame
\* before
C9_Witness ==
    /\ last.op = "check"
    /\ last.i = 1
    /\ last.j = 2
    /\ frame >= 1
    /\ moved = {0, 1}

\* the pairs (i, j), i < j < n, in increasing order
RECURSIVE PairsFrom(_, _, _)
PairsFrom(a, b, n) ==
    IF a + 1 >= n THEN <<>>
    ELSE IF b >= n THEN PairsFrom(a + 1, a + 2, n)
    ELSE <<<<a, b>>>> \o PairsFrom(a, b + 1, n)

PairsInOrder(n) == PairsFrom(0, 1, n)

\* C10: in each frame that runs the physics, when the collision pass is
\* over every unordered pair of balls has been checked exactly once, in
\* increasing (i, j) order, and no ball against itself.
C10_EveryPairOnce ==
    ((pc = "draw" /\ RunsPhysics(paused)) \/ pc = "crashed") =>
        checks = PairsInOrder(N)

\* the velocity the collision formula gives a ball of mass m1 and speed v1
\* that meets a ball of mass m2 and speed v2
AfterCollision(m1, v1, m2, v2) == Round((m1 - m2) * v1 + 2 * m2 * v2, m1 + m2)

\* both balls of the last pair carry the velocities of the collision formula
VelocitiesOverwritten ==
    /\ PostSelf.speed_x = AfterCollision(PreSelf.mass, PreSelf.speed_x,
                                         PreOther.mass, PreOther.speed_x)
    /\ PostSelf.speed_y = AfterCollision(PreSelf.mass, PreSelf.speed_y,
                                         PreOther.mass, PreOther.speed_y)
    /\ PostOther.speed_x = AfterCollision(PreOther.mass, PreOther.speed_x,
                                          PreSelf.mass, PreSelf.speed_x)
    /\ PostOther.speed_y = AfterCollision(PreOther.mass, PreOther.speed_y,
                                          PreSelf.mass, PreSelf.speed_y)

\* neither ball of the last pair has moved
PositionsUnchanged ==
    /\ PostSelf.x = PreSelf.x
    /\ PostSelf.y = PreSelf.y
    /\ PostOther.x = PreOther.x
    /\ PostOther.y = PreOther.y

\* C11: the program fails only in a collision check, and a collision check
\* fails exactly on a pair of coincident centres (distance 0): a check of a
\* pair with distance > 0 completes.  At the failure both velocities are
\* already overwritten and both positions unchanged, the frame is left
\* unfinished (ball j and the later pairs are not reached) and no further
\* step is taken.
C11_CoincidentCentresFault ==
    /\ pc = "crashed" => last.op = "check"
    /\ last.op = "check" =>
          /\ (Distance(PreSelf, PreOther) > 0 => pc # "crashed")
          /\ (Distance(PreSelf, PreOther) = 0 =>
                /\ pc = "crashed"
                /\ VelocitiesOverwritten
                /\ PositionsUnchanged
                /\ last.j \notin moved
                /\ ~ENABLED Next)

\* two balls the driver placed on the same point were checked in the first
\* frame: the check failed with the velocities changed and the positions not
C11_Witness ==
    /\ pc = "crashed"
    /\ frame = 0
    /\ created[last.i].x = created[last.j].x
    /\ created[last.i].y = created[last.j].y
    /\ PostSelf.speed_x # PreSelf.speed_x
    /\ PostOther.speed_x # PreOther.speed_x
    /\ PositionsUnchanged

\* the number of balls before ball k that carry the digit of ball k
PlacedBefore(k) ==
    Cardinality({m \in 0..(k - 1) : args.pi_digits[m + 1] = args.pi_digits[k + 1]})

\* one ball per digit, in the order of the input
OnePerDigit ==
    /\ DOMAIN balls = 0..(Min(args.max_balls, Len(args.pi_digits)) - 1)
    /\ \A k \in DOMAIN balls : balls[k].digit = args.pi_digits[k + 1]

\* radii in 20..40, not decreasing along the balls of one digit
RadiiInRange ==
    /\ \A k \in DOMAIN balls : balls[k].radius \in base_radius..max_radius
    /\ \A k, m \in DOMAIN balls :
          (k < m /\ balls[k].digit = balls[m].digit) => balls[k].radius <= balls[m].radius

\* C12 as stated: min(max_balls, len(digits)) balls are created, one per
\* digit in input order, and the ball of a digit placed c times before it
\* gets radius min(20 + c // 3, 40); the radii lie in 20..40 and do not
\* decrease along the balls of one digit.
C12_AsStated ==
    (last.op = "create" /\ args.max_balls >= 0) =>
        /\ OnePerDigit
        /\ \A k \in DOMAIN balls :
              balls[k].radius = Min(20 + PlacedBefore(k) \div 3, 40)
        /\ RadiiInRange

\* C12 amended: for max_balls >= 0, min(max_balls, len(digits)) balls are
\* created, one per digit in input order, and the ball of a digit placed c
\* times before it gets radius min(20 + (c + 1) // 3, 40), the ball itself
\* being counted; the radii lie in 20..40 and do not decrease along the
\* balls of one digit.
C12_BallCreation ==
    last.op = "create" =>
        /\ args.max_balls >= 0 => OnePerDigit
        /\ \A k \in DOMAIN balls :
              balls[k].radius = Min(20 + (PlacedBefore(k) + 1) \div 3, 40)
        /\ RadiiInRange

\* 64 balls of one digit were created: the third has radius 21 and the
\* 63rd, with 62 placed before it, is held to 40
C12_Witness ==
    /\ last.op = "create"
    /\ N = 64
    /\ PlacedBefore(2) = 2
    /\ balls[2].radius = 21
    /\ PlacedBefore(62) = 62
    /\ balls[62].radius = 40

====
